---- MODULE Spec2Model ----
(***************************************************************************)
(* State-machine model of server.py: module-level logging setup, signal    *)
(* handler registration, command-line parsing, --log-file reconciliation,  *)
(* level application and the guarded uvicorn.run call.                     *)
(*                                                                         *)
(* Strings whose content the code inspects (argument values, the DEBUG     *)
(* environment value, paths) are sequences of one-character strings, so    *)
(* that lower(), upper(), int() and the choices test are computed.         *)
(***************************************************************************)
EXTENDS Integers, Sequences, FiniteSets, TLC

\* Bound on the number of signals delivered to the process in one run.
MaxSignals == 2

----------------------------------------------------------------------------
\* Optional values (Python None versus a string)

None == [some |-> FALSE, val |-> <<>>]

Some(s) == [some |-> TRUE, val |-> s]

----------------------------------------------------------------------------
\* logging level numbers

DEBUG == 10

INFO == 20

WARNING == 30

ERROR == 40

CRITICAL == 50

NOTSET == 0

----------------------------------------------------------------------------
\* str.lower() / str.upper() over the characters the inputs use

LowerLetters == <<"a","b","c","d","e","f","g","h","i","j","k","l","m",
                  "n","o","p","q","r","s","t","u","v","w","x","y","z">>

UpperLetters == <<"A","B","C","D","E","F","G","H","I","J","K","L","M",
                  "N","O","P","Q","R","S","T","U","V","W","X","Y","Z">>

LowerChar(c) ==
    IF \E i \in 1..26 : UpperLetters[i] = c
    THEN LowerLetters[CHOOSE i \in 1..26 : UpperLetters[i] = c]
    ELSE c

UpperChar(c) ==
    IF \E i \in 1..26 : LowerLetters[i] = c
    THEN UpperLetters[CHOOSE i \in 1..26 : LowerLetters[i] = c]
    ELSE c

Lower(s) == [i \in 1..Len(s) |-> LowerChar(s[i])]

Upper(s) == [i \in 1..Len(s) |-> UpperChar(s[i])]

----------------------------------------------------------------------------
\* int(): optional sign followed by one or more decimal digits

Digits == <<"0","1","2","3","4","5","6","7","8","9">>

IsDigit(c) == \E i \in 1..10 : Digits[i] = c

DigitVal(c) == (CHOOSE i \in 1..10 : Digits[i] = c) - 1

HasSign(s) == Len(s) > 0 /\ s[1] \in {"-", "+"}

Body(s) == IF HasSign(s) THEN Tail(s) ELSE s

IsIntLiteral(s) ==
    /\ Len(Body(s)) > 0
    /\ \A i \in 1..Len(Body(s)) : IsDigit(Body(s)[i])

RECURSIVE DigitsValue(_)
DigitsValue(s) ==
    IF s = <<>> THEN 0
    ELSE 10 * DigitsValue(SubSeq(s, 1, Len(s) - 1)) + DigitVal(s[Len(s)])

IntOf(s) ==
    IF HasSign(s) /\ s[1] = "-" THEN 0 - DigitsValue(Body(s))
    ELSE DigitsValue(Body(s))

----------------------------------------------------------------------------
\* Command-line schema

DefaultHost == "localhost"

DefaultPort == 8000

DefaultLogLevel == <<"i","n","f","o">>

LogLevelChoices ==
    { <<"d","e","b","u","g">>, <<"i","n","f","o">>,
      <<"w","a","r","n","i","n","g">>, <<"e","r","r","o","r">>,
      <<"c","r","i","t","i","c","a","l">> }

\* type=int is the only validation of --port
PortAccepted(s) == IsIntLiteral(s)

\* choices=[...] is an exact membership test
LogLevelAccepted(s) == s \in LogLevelChoices

ArgsValid(av) ==
    /\ av.port.some => PortAccepted(av.port.val)
    /\ av.log_level.some => LogLevelAccepted(av.log_level.val)

ParsedArgs(av) ==
    [ host      |-> DefaultHost,
      port      |-> IF av.port.some THEN IntOf(av.port.val) ELSE DefaultPort,
      log_level |-> IF av.log_level.some THEN av.log_level.val
                    ELSE DefaultLogLevel,
      log_file  |-> av.log_file,
      reload    |-> av.reload ]

NoArgs ==
    [ host |-> "", port |-> 0, log_level |-> <<>>, log_file |-> None,
      reload |-> FALSE ]

----------------------------------------------------------------------------
\* DEBUG environment override and level resolution

DebugTruthy == { <<"t","r","u","e">>, <<"1">>, <<"y","e","s">> }

\* os.getenv("DEBUG", "")
GetEnvDebug(env) == IF env.some THEN env.val ELSE <<>>

\* variant: the environment value is compared without lower()
ResolveLogLevel_CaseSensitive(env, a) ==
    IF GetEnvDebug(env) \in DebugTruthy
    THEN <<"d","e","b","u","g">>
    ELSE a.log_level


ResolveLogLevel(env, a) ==
    IF Lower(GetEnvDebug(env)) \in DebugTruthy
    THEN <<"d","e","b","u","g">>
    ELSE a.log_level

\* getattr(logging, log_level.upper(), logging.INFO)
NumericLevel(name) ==
    LET u == Upper(name) IN
    CASE u = <<"D","E","B","U","G">> -> DEBUG
      [] u = <<"I","N","F","O">> -> INFO
      [] u = <<"W","A","R","N","I","N","G">> -> WARNING
      [] u = <<"E","R","R","O","R">> -> ERROR
      [] u = <<"C","R","I","T","I","C","A","L">> -> CRITICAL
      [] OTHER -> INFO

----------------------------------------------------------------------------
\* Inputs of one run

PortInputs ==
    { None, Some(<<"8","0","0","0">>), Some(<<"9","9","9","9","9">>),
      Some(<<"a","b","c">>) }

LogLevelInputs ==
    { None, Some(<<"d","e","b","u","g">>), Some(<<"w","a","r","n","i","n","g">>),
      Some(<<"c","r","i","t","i","c","a","l">>), Some(<<"I","N","F","O">>) }

DefaultLogFile ==
    <<"l","o","g","s","/","a","c","a","d","e","m","i","c","-",
      "a","g","e","n","t",".","l","o","g">>

LogFileInputs == { None, Some(<<>>), Some(<<"a">>), Some(DefaultLogFile) }

EnvDebugInputs ==
    { None, Some(<<"1">>), Some(<<"T","r","u","e">>), Some(<<"Y","E","S">>),
      Some(<<"o","n">>) }

OsNames == { "posix", "nt" }

Signals == { "SIGTERM", "SIGINT" }

----------------------------------------------------------------------------
\* Exceptions

NoExc == [cls |-> "None", msg |-> "", code |-> 0]

OSError(m) == [cls |-> "OSError", msg |-> m, code |-> 0]

SystemExit(c) == [cls |-> "SystemExit", msg |-> "", code |-> c]

KeyboardInterrupt == [cls |-> "KeyboardInterrupt", msg |-> "", code |-> 0]

\* Exceptions the external serve() call may raise
ServeErrors ==
    { OSError("address already in use"),
      [cls |-> "RuntimeError", msg |-> "invalid configuration", code |-> 0] }

\* Subclasses of Exception (SystemExit and KeyboardInterrupt are not)
ExceptionClasses == { "OSError", "RuntimeError" }

\* variant: the clause is "except BaseException"
Caught_BaseException(cls) == TRUE

\* variant: the clause is "except OSError"
Caught_OSErrorOnly(cls) == cls = "OSError"

\* The clause "except Exception" catches exactly the Exception subclasses
Caught(cls) == cls \in ExceptionClasses

\* Process exit status of an exception that reaches the top level
ExitStatus(e) ==
    IF e.cls = "SystemExit" THEN e.code
    ELSE IF e.cls = "KeyboardInterrupt" THEN 130
    ELSE 1

----------------------------------------------------------------------------
\* Handlers (sinks) of the root logger

HandlerIds == { "console_handler", "file_handler", "custom_file_handler" }

NoSink == [kind |-> "none", path |-> <<>>, level |-> NOTSET, open |-> FALSE]

StreamHandler == [kind |-> "stream", path |-> <<>>, level |-> NOTSET, open |-> TRUE]

RotatingFileHandler(p) ==
    [kind |-> "rotating", path |-> p, level |-> NOTSET, open |-> TRUE]

IsRotating(sk, h) == sk[h].kind = "rotating"

\* the handlers a removal loop (for handler in handlers[:]: if isinstance ...) removes
FileHandlersOf(hs, sk) ==
    { hs[i] : i \in { j \in 1..Len(hs) : IsRotating(sk, hs[j]) } }

\* variant: the removal loop removes nothing
RemoveFileHandlers_KeepAll(hs, sk) == hs

\* the handler list after the removal loop
RemoveFileHandlers(hs, sk) ==
    LET keep(h) == ~IsRotating(sk, h) IN SelectSeq(hs, keep)

\* handler.close() on each removed handler
CloseAll(sk, removed) ==
    [h \in HandlerIds |->
        IF h \in removed THEN [sk[h] EXCEPT !.open = FALSE] ELSE sk[h]]

\* variant: only the first handler of the list gets the new level
SetHandlerLevelsOf_FirstOnly(hs, sk, lvl) ==
    [h \in HandlerIds |->
        IF Len(hs) > 0 /\ hs[1] = h
        THEN [sk[h] EXCEPT !.level = lvl] ELSE sk[h]]

\* for handler in root_logger.handlers: handler.setLevel(numeric_level)
SetHandlerLevelsOf(hs, sk, lvl) ==
    [h \in HandlerIds |->
        IF \E i \in 1..Len(hs) : hs[i] = h
        THEN [sk[h] EXCEPT !.level = lvl] ELSE sk[h]]

\* variant: truthiness test, the empty string is treated like None
LogFileMode_Truthiness(a) ==
    IF ~a.log_file.some \/ a.log_file.val = <<>> THEN "keep" ELSE "custom"

\* three-way meaning of args.log_file
LogFileMode(a) ==
    IF ~a.log_file.some THEN "keep"
    ELSE IF a.log_file.val = <<>> THEN "disable"
    ELSE "custom"

\* variant: the module-level setup uses WARNING
InitLevel_Warning == WARNING

\* level the module-level setup gives the root logger and both handlers
InitLevel == INFO

\* level given to the custom file handler on creation
CustomInitLevel == INFO

DebugNamespaces == { "src", "langchain", "langgraph" }

----------------------------------------------------------------------------
VARIABLES
    os_name,        \* os.name
    argv,           \* raw command-line option values
    environ,        \* value of the DEBUG environment variable
    pc,             \* position of the main thread
    root_level,     \* root_logger.level
    handlers,       \* root_logger.handlers
    sink,           \* state of each handler object
    args,           \* parsed arguments
    log_level,      \* resolved level name
    numeric_level,  \* level number computed at line 160
    ns_level,       \* levels of the src / langchain / langgraph loggers
    sig_handler,    \* installed disposition of SIGTERM and SIGINT
    nsignals,       \* signals delivered so far
    last_signal,    \* last signal handled by handle_shutdown
    records,        \* logging calls made through logger, in order
    in_try,         \* main thread is inside the try block
    serve_call,     \* arguments of the uvicorn.run call
    serve_result,   \* how the uvicorn.run call ended
    exc,            \* last exception raised
    exit_code       \* process exit status

inputs == <<os_name, argv, environ>>

pipeline == <<root_level, handlers, sink>>

config == <<args, log_level, numeric_level>>

sigstate == <<sig_handler, nsignals, last_signal>>

serve == <<serve_call, serve_result>>

vars == <<os_name, argv, environ, pc, root_level, handlers, sink, args,
          log_level, numeric_level, ns_level, sig_handler, nsignals,
          last_signal, records, in_try, serve_call, serve_result, exc,
          exit_code>>

NoCall ==
    [called |-> FALSE, host |-> "", port |-> 0, reload |-> FALSE,
     log_level |-> <<>>]

Attached(h) == \E i \in 1..Len(handlers) : handlers[i] = h

\* logger.<level>(msg): the record reaches every attached handler whose
\* level it clears, provided it clears the root level
LogEntry(sev, tag, text) ==
    [ sev   |-> sev,
      tag   |-> tag,
      text  |-> text,
      root  |-> root_level,
      sinks |-> IF sev >= root_level
                THEN { h \in HandlerIds : Attached(h) /\ sev >= sink[h].level }
                ELSE {} ]

Log(sev, tag, text) == records' = Append(records, LogEntry(sev, tag, text))

\* an exception raised at the current position of the main thread
Raise(e) ==
    /\ exc' = e
    /\ in_try' = FALSE
    /\ IF in_try /\ Caught(e.cls)
       THEN pc' = "except" /\ exit_code' = exit_code
       ELSE pc' = "exited" /\ exit_code' = ExitStatus(e)

Goto(l) == pc' = l /\ UNCHANGED <<in_try, exc, exit_code>>

Init ==
    /\ os_name \in OsNames
    /\ argv \in [ port : PortInputs, log_level : LogLevelInputs,
                  log_file : LogFileInputs, reload : BOOLEAN ]
    /\ environ \in EnvDebugInputs
    /\ pc = "mkdir_logs"
    /\ root_level = WARNING
    /\ handlers = <<>>
    /\ sink = [h \in HandlerIds |-> NoSink]
    /\ args = NoArgs
    /\ log_level = <<>>
    /\ numeric_level = NOTSET
    /\ ns_level = [n \in DebugNamespaces |-> NOTSET]
    /\ sig_handler = [s \in Signals |-> "default"]
    /\ nsignals = 0
    /\ last_signal = "none"
    /\ records = <<>>
    /\ in_try = FALSE
    /\ serve_call = NoCall
    /\ serve_result = [status |-> "none", error |-> NoExc]
    /\ exc = NoExc
    /\ exit_code = -1

----------------------------------------------------------------------------
\* Module-level setup (lines 19-74)

\* log_dir.mkdir(exist_ok=True)
MkdirLogs ==
    /\ pc = "mkdir_logs"
    /\ \E ok \in BOOLEAN :
          IF ok THEN Goto("root_setLevel") ELSE Raise(OSError("mkdir logs"))
    /\ UNCHANGED <<inputs, pipeline, config, ns_level, sigstate, records, serve>>

\* root_logger.setLevel(logging.INFO)
RootSetLevel ==
    /\ pc = "root_setLevel"
    /\ root_level' = InitLevel
    /\ Goto("clear_handlers")
    /\ UNCHANGED <<inputs, handlers, sink, config, ns_level, sigstate, records, serve>>

\* root_logger.handlers.clear()
ClearHandlers ==
    /\ pc = "clear_handlers"
    /\ handlers' = <<>>
    /\ Goto("add_console")
    /\ UNCHANGED <<inputs, root_level, sink, config, ns_level, sigstate, records, serve>>

\* console_handler = StreamHandler(sys.stdout); setLevel(INFO); addHandler
AddConsoleHandler ==
    /\ pc = "add_console"
    /\ sink' = [sink EXCEPT !["console_handler"] =
                   [StreamHandler EXCEPT !.level = InitLevel]]
    /\ handlers' = Append(handlers, "console_handler")
    /\ Goto("add_file")
    /\ UNCHANGED <<inputs, root_level, config, ns_level, sigstate, records, serve>>

\* file_handler = RotatingFileHandler(log_file, ...); setLevel(INFO); addHandler
AddFileHandler ==
    /\ pc = "add_file"
    /\ \E ok \in BOOLEAN :
          IF ok
          THEN /\ sink' = [sink EXCEPT !["file_handler"] =
                     [RotatingFileHandler(DefaultLogFile) EXCEPT !.level = InitLevel]]
               /\ handlers' = Append(handlers, "file_handler")
               /\ Goto("os_name")
          ELSE /\ Raise(OSError("open default"))
               /\ UNCHANGED <<sink, handlers>>
    /\ UNCHANGED <<inputs, root_level, config, ns_level, sigstate, records, serve>>

\* if os.name == "nt": logger.info(...); set_event_loop_policy(...)
WindowsPolicy ==
    /\ pc = "os_name"
    /\ IF os_name = "nt"
       THEN Log(INFO, "windows event loop policy", "")
       ELSE UNCHANGED records
    /\ Goto("signal_SIGTERM")
    /\ UNCHANGED <<inputs, pipeline, config, ns_level, sigstate, serve>>

\* signal.signal(signal.SIGTERM, handle_shutdown)
RegisterSIGTERM ==
    /\ pc = "signal_SIGTERM"
    /\ sig_handler' = [sig_handler EXCEPT !["SIGTERM"] = "handle_shutdown"]
    /\ Goto("signal_SIGINT")
    /\ UNCHANGED <<inputs, pipeline, config, ns_level, nsignals, last_signal,
                   records, serve>>

\* signal.signal(signal.SIGINT, handle_shutdown)
RegisterSIGINT ==
    /\ pc = "signal_SIGINT"
    /\ sig_handler' = [sig_handler EXCEPT !["SIGINT"] = "handle_shutdown"]
    /\ Goto("parse_args")
    /\ UNCHANGED <<inputs, pipeline, config, ns_level, nsignals, last_signal,
                   records, serve>>

----------------------------------------------------------------------------
\* Signals and handle_shutdown (lines 66-69)

\* Delivery of a signal to the main thread.  With handle_shutdown installed
\* the handler starts; otherwise the default disposition applies: SIGINT
\* raises KeyboardInterrupt, SIGTERM kills the process.
Signal(sig) ==
    /\ pc # "exited"
    /\ nsignals < MaxSignals
    /\ nsignals' = nsignals + 1
    /\ IF sig_handler[sig] = "handle_shutdown"
       THEN /\ last_signal' = sig
            /\ Goto("handle_shutdown")
       ELSE /\ UNCHANGED last_signal
            /\ IF sig = "SIGINT"
               THEN Raise(KeyboardInterrupt)
               ELSE /\ pc' = "exited"
                    /\ exit_code' = 143
                    /\ UNCHANGED <<in_try, exc>>
    /\ UNCHANGED <<inputs, pipeline, config, ns_level, sig_handler, records, serve>>

\* logger.info("Received shutdown signal. Starting graceful shutdown...")
HandleShutdownLog ==
    /\ pc = "handle_shutdown"
    /\ Log(INFO, "received shutdown signal", "")
    /\ Goto("handle_shutdown_exit")
    /\ UNCHANGED <<inputs, pipeline, config, ns_level, sigstate, serve>>

\* sys.exit(0)
HandleShutdownExit ==
    /\ pc = "handle_shutdown_exit"
    /\ Raise(SystemExit(0))
    /\ UNCHANGED <<inputs, pipeline, config, ns_level, sigstate, records, serve>>

----------------------------------------------------------------------------
\* __main__: arguments and level resolution (lines 78-121)

\* args = parser.parse_args(); a rejected value ends in parser.error -> exit(2)
ParseArgs ==
    /\ pc = "parse_args"
    /\ IF ArgsValid(argv)
       THEN /\ args' = ParsedArgs(argv)
            /\ Goto("resolve_level")
       ELSE /\ Raise(SystemExit(2))
            /\ UNCHANGED args
    /\ UNCHANGED <<inputs, pipeline, log_level, numeric_level, ns_level,
                   sigstate, records, serve>>

\* DEBUG environment override of args.log_level
ResolveLevel ==
    /\ pc = "resolve_level"
    /\ log_level' = ResolveLogLevel(environ, args)
    /\ Goto("reconcile")
    /\ UNCHANGED <<inputs, pipeline, args, numeric_level, ns_level, sigstate,
                   records, serve>>

----------------------------------------------------------------------------
\* __main__: --log-file reconciliation (lines 123-149)

\* if args.log_file is not None: if args.log_file == "": ... else: ...
Reconcile ==
    /\ pc = "reconcile"
    /\ Goto(CASE LogFileMode(args) = "keep" -> "try"
              [] LogFileMode(args) = "disable" -> "disable_file"
              [] OTHER -> "custom_mkdir")
    /\ UNCHANGED <<inputs, pipeline, config, ns_level, sigstate, records, serve>>

\* empty string: remove and close every RotatingFileHandler
DisableFileLogging ==
    /\ pc = "disable_file"
    /\ handlers' = RemoveFileHandlers(handlers, sink)
    /\ sink' = CloseAll(sink, FileHandlersOf(handlers, sink))
    /\ Goto("try")
    /\ UNCHANGED <<inputs, root_level, config, ns_level, sigstate, records, serve>>

\* custom_log_file.parent.mkdir(parents=True, exist_ok=True)
CustomMkdir ==
    /\ pc = "custom_mkdir"
    /\ \E ok \in BOOLEAN :
          IF ok THEN Goto("custom_remove") ELSE Raise(OSError("mkdir custom"))
    /\ UNCHANGED <<inputs, pipeline, config, ns_level, sigstate, records, serve>>

\* remove and close the old file handler
CustomRemoveOld ==
    /\ pc = "custom_remove"
    /\ handlers' = RemoveFileHandlers(handlers, sink)
    /\ sink' = CloseAll(sink, FileHandlersOf(handlers, sink))
    /\ Goto("custom_open")
    /\ UNCHANGED <<inputs, root_level, config, ns_level, sigstate, records, serve>>

\* custom_file_handler = RotatingFileHandler(custom_log_file, ...); setLevel(INFO)
CustomOpen ==
    /\ pc = "custom_open"
    /\ \E ok \in BOOLEAN :
          IF ok
          THEN /\ sink' = [sink EXCEPT !["custom_file_handler"] =
                     [RotatingFileHandler(args.log_file.val)
                         EXCEPT !.level = CustomInitLevel]]
               /\ Goto("custom_attach")
          ELSE /\ Raise(OSError("open custom"))
               /\ UNCHANGED sink
    /\ UNCHANGED <<inputs, root_level, handlers, config, ns_level, sigstate,
                   records, serve>>

\* root_logger.addHandler(custom_file_handler)
CustomAttach ==
    /\ pc = "custom_attach"
    /\ handlers' = Append(handlers, "custom_file_handler")
    /\ Goto("try")
    /\ UNCHANGED <<inputs, root_level, sink, config, ns_level, sigstate, records, serve>>

----------------------------------------------------------------------------
\* __main__: the try block (lines 151-182)

EnterTry ==
    /\ pc = "try"
    /\ pc' = "log_starting"
    /\ in_try' = TRUE
    /\ UNCHANGED <<inputs, pipeline, config, ns_level, sigstate, records, serve,
                   exc, exit_code>>

\* logger.info(f"Starting DeerFlow API server on {args.host}:{args.port}")
LogStarting ==
    /\ pc = "log_starting"
    /\ Log(INFO, "starting server", "")
    /\ Goto("log_level_line")
    /\ UNCHANGED <<inputs, pipeline, config, ns_level, sigstate, serve>>

\* logger.info(f"Log level: {log_level.upper()}")
LogLevelLine ==
    /\ pc = "log_level_line"
    /\ Log(INFO, "log level", "")
    /\ Goto("log_file_line")
    /\ UNCHANGED <<inputs, pipeline, config, ns_level, sigstate, serve>>

\* if file_handlers: logger.info(f"Log file: {file_handlers[0].baseFilename}")
LogFileLine ==
    /\ pc = "log_file_line"
    /\ IF FileHandlersOf(handlers, sink) # {}
       THEN Log(INFO, "log file", "")
       ELSE UNCHANGED records
    /\ Goto("set_root_level")
    /\ UNCHANGED <<inputs, pipeline, config, ns_level, sigstate, serve>>

\* numeric_level = getattr(...); root_logger.setLevel(numeric_level)
SetRootLevel ==
    /\ pc = "set_root_level"
    /\ numeric_level' = NumericLevel(log_level)
    /\ root_level' = NumericLevel(log_level)
    /\ Goto("set_handler_levels")
    /\ UNCHANGED <<inputs, handlers, sink, args, log_level, ns_level, sigstate,
                   records, serve>>

\* for handler in root_logger.handlers: handler.setLevel(numeric_level)
SetHandlerLevels ==
    /\ pc = "set_handler_levels"
    /\ sink' = SetHandlerLevelsOf(handlers, sink, numeric_level)
    /\ Goto("debug_namespaces")
    /\ UNCHANGED <<inputs, root_level, handlers, config, ns_level, sigstate,
                   records, serve>>

\* if log_level.lower() == "debug": three namespaces to DEBUG, one info line
EnableDebugNamespaces ==
    /\ pc = "debug_namespaces"
    /\ IF Lower(log_level) = <<"d","e","b","u","g">>
       THEN /\ ns_level' = [n \in DebugNamespaces |-> DEBUG]
            /\ Log(INFO, "debug logging enabled", "")
       ELSE UNCHANGED <<ns_level, records>>
    /\ Goto("uvicorn_run")
    /\ UNCHANGED <<inputs, pipeline, config, sigstate, serve>>

\* uvicorn.run("src.server:app", host, port, reload, log_level): the call
CallServe ==
    /\ pc = "uvicorn_run"
    /\ serve_call' = [called |-> TRUE, host |-> args.host, port |-> args.port,
                      reload |-> args.reload, log_level |-> log_level]
    /\ Goto("serving")
    /\ UNCHANGED <<inputs, pipeline, config, ns_level, sigstate, records,
                   serve_result>>

\* uvicorn.run returns: the script falls off its end
ServeReturns ==
    /\ pc = "serving"
    /\ serve_result' = [status |-> "returned", error |-> NoExc]
    /\ pc' = "exited"
    /\ exit_code' = 0
    /\ in_try' = FALSE
    /\ UNCHANGED <<inputs, pipeline, config, ns_level, sigstate, records,
                   serve_call, exc>>

\* uvicorn.run raises
ServeRaises ==
    /\ pc = "serving"
    /\ \E e \in ServeErrors :
          /\ serve_result' = [status |-> "raised", error |-> e]
          /\ Raise(e)
    /\ UNCHANGED <<inputs, pipeline, config, ns_level, sigstate, records,
                   serve_call>>

\* except Exception as e: logger.error(f"Failed to start server: {str(e)}")
ExceptLog ==
    /\ pc = "except"
    /\ Log(ERROR, "failed to start server", exc.msg)
    /\ Goto("except_exit")
    /\ UNCHANGED <<inputs, pipeline, config, ns_level, sigstate, serve>>

\* sys.exit(1)
ExceptExit ==
    /\ pc = "except_exit"
    /\ Raise(SystemExit(1))
    /\ UNCHANGED <<inputs, pipeline, config, ns_level, sigstate, records, serve>>

----------------------------------------------------------------------------
Next ==
    \/ MkdirLogs
    \/ RootSetLevel
    \/ ClearHandlers
    \/ AddConsoleHandler
    \/ AddFileHandler
    \/ WindowsPolicy
    \/ RegisterSIGTERM
    \/ RegisterSIGINT
    \/ \E sig \in Signals : Signal(sig)
    \/ HandleShutdownLog
    \/ HandleShutdownExit
    \/ ParseArgs
    \/ ResolveLevel
    \/ Reconcile
    \/ DisableFileLogging
    \/ CustomMkdir
    \/ CustomRemoveOld
    \/ CustomOpen
    \/ CustomAttach
    \/ EnterTry
    \/ LogStarting
    \/ LogLevelLine
    \/ LogFileLine
    \/ SetRootLevel
    \/ SetHandlerLevels
    \/ EnableDebugNamespaces
    \/ CallServe
    \/ ServeReturns
    \/ ServeRaises
    \/ ExceptLog
    \/ ExceptExit

Spec == Init /\ [][Next]_vars

\* The main thread and a started signal handler keep running: every step
\* of the sequential script is taken once it is enabled.  uvicorn.run may
\* block forever, so no fairness is assumed for its return.
MainSteps ==
    \/ MkdirLogs \/ RootSetLevel \/ ClearHandlers \/ AddConsoleHandler
    \/ AddFileHandler \/ WindowsPolicy \/ RegisterSIGTERM \/ RegisterSIGINT
    \/ HandleShutdownLog \/ HandleShutdownExit \/ ParseArgs \/ ResolveLevel
    \/ Reconcile \/ DisableFileLogging \/ CustomMkdir \/ CustomRemoveOld
    \/ CustomOpen \/ CustomAttach \/ EnterTry \/ LogStarting \/ LogLevelLine
    \/ LogFileLine \/ SetRootLevel \/ SetHandlerLevels
    \/ EnableDebugNamespaces \/ CallServe \/ ExceptLog \/ ExceptExit

FairSpec == Spec /\ WF_vars(MainSteps)

----------------------------------------------------------------------------
\* Vocabulary of the properties

\* positions of the list that hold a rotating-file handler
FileSinkPositions == { i \in 1..Len(handlers) : IsRotating(sink, handlers[i]) }

AttachedSet == { h \in HandlerIds : Attached(h) }

\* two characters that are the same letter in either case
SameLetter(c, d) ==
    \/ c = d
    \/ \E i \in 1..26 : {c, d} = {LowerLetters[i], UpperLetters[i]}

EqualIgnoringCase(s, t) ==
    /\ Len(s) = Len(t)
    /\ \A i \in 1..Len(s) : SameLetter(s[i], t[i])

EnvRequestsDebug ==
    /\ environ.some
    /\ \E t \in { <<"t","r","u","e">>, <<"1">>, <<"y","e","s">> } :
          EqualIgnoringCase(environ.val, t)

\* the value of --log-level, "info" when the option is not given
LogLevelOption ==
    IF argv.log_level.some THEN argv.log_level.val ELSE <<"i","n","f","o">>

ExpectedEffectiveLevel ==
    IF EnvRequestsDebug THEN <<"d","e","b","u","g">> ELSE LogLevelOption

\* severity number of a lower-case level name
SeverityOf(name) ==
    CASE name = <<"d","e","b","u","g">> -> 10
      [] name = <<"i","n","f","o">> -> 20
      [] name = <<"w","a","r","n","i","n","g">> -> 30
      [] name = <<"e","r","r","o","r">> -> 40
      [] name = <<"c","r","i","t","i","c","a","l">> -> 50

StartupTags == { "starting server", "log level", "log file" }

HasRecord(tag) == \E i \in 1..Len(records) : records[i].tag = tag

Exited == pc = "exited"

HandlersInstalled == \A s \in Signals : sig_handler[s] = "handle_shutdown"

ShuttingDown ==
    HandlersInstalled /\ pc \in {"handle_shutdown", "handle_shutdown_exit"}

Running == HandlersInstalled /\ ~Exited /\ ~ShuttingDown

PortOutOfRange ==
    /\ argv.port.some
    /\ IsIntLiteral(argv.port.val)
    /\ IntOf(argv.port.val) \notin 1..65535

ParseDone == args # NoArgs \/ exc = SystemExit(2)

CustomLogFileFailure ==
    exc \in { OSError("mkdir custom"), OSError("open custom") }

----------------------------------------------------------------------------
\* C1: in every reachable state at most one rotating-file handler is
\* attached to the root logger.
C1_AtMostOneFileSink == Cardinality(FileSinkPositions) <= 1

\* the server is running on a custom file handler that replaced the default
C1_Witness ==
    /\ pc = "serving"
    /\ Attached("custom_file_handler")
    /\ sink["file_handler"].kind = "rotating"
    /\ ~Attached("file_handler")

\* C2 (as claimed): when opening the new rotating-file handler fails, the
\* previously attached file handler is still attached and still open.
C2_PreviousSinkIntact ==
    exc = OSError("open custom") =>
        Attached("file_handler") /\ sink["file_handler"].open

\* C3 (as claimed): an out-of-range --port is never accepted by the parser,
\* and no handler is attached to the root logger before parsing is done.
C3_PortRejectedBeforeSinks ==
    PortOutOfRange =>
        /\ args = NoArgs
        /\ handlers # <<>> => ParseDone

\* C4: a signal delivered while Running starts the shutdown; once shutting
\* down the process only stays in the handler or exits with status 0, and
\* it does exit with status 0.
C4_SignalStep ==
    /\ (Running /\ nsignals' # nsignals) => ShuttingDown'
    /\ ShuttingDown => (ShuttingDown' \/ (Exited' /\ exit_code' = 0))

C4_SignalExitsZero ==
    /\ [][C4_SignalStep]_vars
    /\ ShuttingDown ~> (Exited /\ exit_code = 0)

\* a signal handled while blocked in uvicorn.run ended the process with 0
C4_Witness ==
    /\ Exited
    /\ exit_code = 0
    /\ last_signal # "none"
    /\ serve_call.called
    /\ serve_result.status = "none"

\* C5 (as claimed): the startup lines are filtered by the effective level,
\* that is, the root level in force when each was logged is the effective one.
C5_StartupLinesAtEffectiveLevel ==
    \A i \in 1..Len(records) :
        records[i].tag \in StartupTags =>
            records[i].root = SeverityOf(log_level)

\* C5 (amended): the startup lines are logged before the effective level is
\* applied; they are filtered by the INFO level of the module-level setup and
\* reach every attached handler.
C5_StartupLinesAtInitLevel ==
    /\ \A i \in 1..Len(records) :
          records[i].tag \in StartupTags =>
              /\ records[i].root = 20
              /\ records[i].sinks = AttachedSet
    /\ numeric_level # NOTSET =>
          HasRecord("starting server") /\ HasRecord("log level")

\* effective level WARNING applied after the three lines went out at INFO
C5_Witness ==
    /\ numeric_level = 30
    /\ root_level = 30
    /\ \E i \in 1..Len(records) :
          records[i].tag = "log file" /\ records[i].sinks # {}

\* C6: the effective level is DEBUG when the DEBUG environment value is one
\* of true / 1 / yes in any letter case, the --log-level value otherwise;
\* that level is the one applied to the root logger and passed to serve().
C6_EffectiveLevel ==
    /\ log_level # <<>> => log_level = ExpectedEffectiveLevel
    /\ numeric_level # NOTSET =>
          /\ numeric_level = SeverityOf(ExpectedEffectiveLevel)
          /\ root_level = SeverityOf(ExpectedEffectiveLevel)
    /\ serve_call.called => serve_call.log_level = ExpectedEffectiveLevel

\* DEBUG=True overrides --log-level warning, up to the serve() call
C6_Witness ==
    /\ serve_call.called
    /\ environ = Some(<<"T","r","u","e">>)
    /\ argv.log_level = Some(<<"w","a","r","n","i","n","g">>)
    /\ root_level = 10

\* C7: when serve() is invoked the root level and the level of every
\* attached handler equal the effective level.
C7_LevelsUniformAtServe ==
    pc \in {"uvicorn_run", "serving"} =>
        /\ root_level = SeverityOf(log_level)
        /\ \A h \in AttachedSet : sink[h].level = SeverityOf(log_level)

\* serving with a custom file handler, created at INFO, now at another level
C7_Witness ==
    /\ pc = "serving"
    /\ Attached("custom_file_handler")
    /\ sink["custom_file_handler"].level # 20

C9_LogFileFailureLogged ==
    (Exited /\ CustomLogFileFailure) =>
        /\ exit_code = 1
        /\ ~serve_call.called
        /\ \E i \in 1..Len(records) :
              records[i].sev = 40 /\ records[i].text = exc.msg

\* C10: after reconciliation the attached file handlers depend on --log-file
\* alone: absent, the default handler is attached and as created; empty,
\* none is attached; non-empty, exactly the custom handler is attached, on
\* the given path, and the default handler is detached and closed.
C10_ReconciledSinks ==
    pc = "try" =>
        /\ ~argv.log_file.some =>
              /\ handlers = <<"console_handler", "file_handler">>
              /\ sink["file_handler"] =
                    [kind |-> "rotating", path |-> DefaultLogFile,
                     level |-> 20, open |-> TRUE]
        /\ argv.log_file = Some(<<>>) => FileSinkPositions = {}
        /\ (argv.log_file.some /\ argv.log_file.val # <<>>) =>
              /\ Cardinality(FileSinkPositions) = 1
              /\ Attached("custom_file_handler")
              /\ sink["custom_file_handler"].path = argv.log_file.val
              /\ sink["custom_file_handler"].open
              /\ ~Attached("file_handler")
              /\ ~sink["file_handler"].open

\* reconciliation finished for a custom path
C10_Witness ==
    /\ pc = "try"
    /\ argv.log_file = Some(<<"a">>)
    /\ Attached("custom_file_handler")
====
